---- MODULE Spec2Model ----
(***************************************************************************)
(* Model of the 5-class label fusion of                                    *)
(* stanford_pipeline/convert_bids_to_nnunetv2_format.py (process_labels).  *)
(*                                                                         *)
(* A raster (a raw mask, a rescaled mask, the output label file) is a      *)
(* record [shape, px]: shape stands for the array's (height, width), px    *)
(* for its values at NPix pixel positions.  Every operation of the code on *)
(* rasters is elementwise, and numpy's boolean-mask assignment raises      *)
(* IndexError exactly when the two shapes differ.                          *)
(*                                                                         *)
(* The input mask files are read once per sample; their presence and       *)
(* content are chosen when the code probes and reads them.  A behaviour is *)
(* one run of process_labels over the samples of the batch.                *)
(***************************************************************************)
EXTENDS Integers, Sequences, FiniteSets, TLC

\* ---------------------------------------------------------------- bounds
NPix == 1
NShapes == 2
NSamples == 2
NTripPix == 3
NRows == 3
NAxons == 2
MaxPathLen == 2

Pixels == 1..NPix
Shapes == 1..NShapes
Samples == 1..NSamples

\* 8-bit intensities a raw mask file may hold: the exact levels 0, 127 and
\* 255, and 190, which is a multiple of neither divisor.
RawValues == {0, 127, 190, 255}
RawMasks == [shape : Shapes, px : [Pixels -> RawValues]]

\* ------------------------------------------------------ module constants
\* Mutant of MASKS_TO_LOAD: the two mandatory masks swapped.
MASKS_SWAPPED == <<"axonmyelin", "uaxon", "nuclei", "process">>
MASKS_TO_LOAD == <<"uaxon", "axonmyelin", "nuclei", "process">>

\* Mutant of CLASS_MAPPING: the id of nuclei is below those of the classes
\* processed before it.
CLASS_MAPPING_NUCLEI_LOW ==
    [background |-> 0, uaxon |-> 1, myelin |-> 2, axon |-> 3,
     nuclei |-> 1, process |-> 5]
CLASS_MAPPING ==
    [background |-> 0, uaxon |-> 1, myelin |-> 2, axon |-> 3,
     nuclei |-> 4, process |-> 5]

MaskNames == {"uaxon", "axonmyelin", "nuclei", "process"}

\* A raster the label file of a sample may hold from an earlier run.
LabelValues == {CLASS_MAPPING[c] : c \in DOMAIN CLASS_MAPPING}
LabelRasters == [shape : Shapes, px : [Pixels -> LabelValues]]

\* ------------------------------------------------------- pure functions
\* Mutants of Mandatory: uaxon optional; every mask mandatory.
MandatoryOnlyAxonmyelin == {"axonmyelin"}
MandatoryAll == {"uaxon", "axonmyelin", "nuclei", "process"}
\* `mask_name in ["uaxon", "axonmyelin"]`: the masks whose file is asserted.
Mandatory == {"uaxon", "axonmyelin"}

\* Mutant of RescalingFactor: every mask is divided by 255.
RescalingFactor255(mask_name) == 255
\* rescaling_factor = 127 if mask_name == "axonmyelin" else 255
RescalingFactor(mask_name) == IF mask_name = "axonmyelin" THEN 127 ELSE 255

\* Mutant of NpRound: the quotient truncated instead of rounded.
NpTruncate(x, d) == x \div d
\* np.round(x / d) for integers x >= 0, d > 0: to the nearest integer, a
\* tie to the even one.
NpRound(x, d) ==
    LET q == x \div d
        r == x % d
    IN  IF 2 * r < d THEN q
        ELSE IF 2 * r > d THEN q + 1
        ELSE IF q % 2 = 0 THEN q ELSE q + 1

\* Mutants of Rescale: the division forgotten; rounding up.
RescaleNoDivide(img, d) == img
RescaleCeil(img, d) ==
    [shape |-> img.shape,
     px |-> [p \in Pixels |-> (img.px[p] + d - 1) \div d]]
\* label = np.round(cv2.imread(label_path, GRAYSCALE) / rescaling_factor)
Rescale(img, d) ==
    [shape |-> img.shape,
     px |-> [p \in DOMAIN img.px |-> NpRound(img.px[p], d)]]

\* cv2.imwrite of an array to an 8-bit PNG: values are cast with saturation.
SaturateU8(v) == IF v < 0 THEN 0 ELSE IF v > 255 THEN 255 ELSE v
ImWrite(img) ==
    [shape |-> img.shape,
     px |-> [p \in DOMAIN img.px |-> SaturateU8(img.px[p])]]

\* Mutant of Merge: a pixel already claimed by an earlier class is kept.
MergeFirstWins(existing_label, label, mask_name) ==
    [shape |-> existing_label.shape,
     px |-> [p \in Pixels |->
        IF existing_label.px[p] # 0 THEN existing_label.px[p]
        ELSE IF mask_name = "axonmyelin"
        THEN IF label.px[p] = 1 THEN CLASS_MAPPING["myelin"]
             ELSE IF label.px[p] = 2 THEN CLASS_MAPPING["axon"]
             ELSE existing_label.px[p]
        ELSE IF label.px[p] = 1 THEN CLASS_MAPPING[mask_name]
             ELSE existing_label.px[p]]]
\* Mutant of Merge: the class id is added to the pixel instead of assigned.
MergeAdds(existing_label, label, mask_name) ==
    [shape |-> existing_label.shape,
     px |-> [p \in Pixels |->
        IF mask_name = "axonmyelin"
        THEN IF label.px[p] = 1
             THEN existing_label.px[p] + CLASS_MAPPING["myelin"]
             ELSE IF label.px[p] = 2
             THEN existing_label.px[p] + CLASS_MAPPING["axon"]
             ELSE existing_label.px[p]
        ELSE IF label.px[p] = 1
             THEN existing_label.px[p] + CLASS_MAPPING[mask_name]
             ELSE existing_label.px[p]]]
\* Mutant of Merge: the raster is replaced by the class's pixels, a pixel
\* the mask does not claim is reset to background.
MergeReplaces(existing_label, label, mask_name) ==
    [shape |-> existing_label.shape,
     px |-> [p \in Pixels |->
        IF mask_name = "axonmyelin"
        THEN IF label.px[p] = 1 THEN CLASS_MAPPING["myelin"]
             ELSE IF label.px[p] = 2 THEN CLASS_MAPPING["axon"]
             ELSE CLASS_MAPPING["background"]
        ELSE IF label.px[p] = 1 THEN CLASS_MAPPING[mask_name]
             ELSE CLASS_MAPPING["background"]]]
\* existing_label[label == 1] = ...; existing_label[label == 2] = ...
\* (shapes equal: the caller has checked it)
Merge(existing_label, label, mask_name) ==
    [shape |-> existing_label.shape,
     px |-> [p \in DOMAIN existing_label.px |->
        IF mask_name = "axonmyelin"
        THEN IF label.px[p] = 1 THEN CLASS_MAPPING["myelin"]
             ELSE IF label.px[p] = 2 THEN CLASS_MAPPING["axon"]
             ELSE existing_label.px[p]
        ELSE IF label.px[p] = 1 THEN CLASS_MAPPING[mask_name]
             ELSE existing_label.px[p]]]

\* ---------------------------------------------------------------- state
VARIABLES
    cur,      \* the sample of the batch being processed (its case_id)
    k,        \* index in MASKS_TO_LOAD of the next mask; 5 after the loop
    status,   \* "running", "done", or "failed" (an exception ended the run)
    err,      \* "none", "AssertionError" or "IndexError"
    exists,   \* the samples whose output label file exists
    out,      \* <<>> or <<raster>>: the current sample's output label file
    existed,  \* whether that file existed when the sample was started
    seen,     \* per mask of the current sample: "unread", "absent", "present"
    label,    \* per mask: <<>> or <<the rescaled mask computed from it>>
    raw,      \* <<>> or <<the raw mask cv2.imread returned last>>
    writes,   \* cv2.imwrite calls on the current sample's output file
    rescaler, \* the rescaling of one intensity, see SpecRescale
    orders,   \* overwrite steps applied in two orders, see SpecOrder
    rerun,    \* a second run over the same sample, see SpecRerun
    workers,  \* two workers fusing two samples, see SpecWorkers
    matching, \* match_axons.py, see SpecMatch
    extract   \* extract_axon_masks.py, see SpecExtract and SpecRoundTrip

\* Each of the last six variables is <<>> in the specifications that do not
\* use it.
fusion == <<cur, k, status, err, exists, out, existed, seen, label, raw, writes>>
vars == <<cur, k, status, err, exists, out, existed, seen, label, raw, writes,
          rescaler, orders, rerun, workers, matching, extract>>

NoLabels == [m \in MaskNames |-> <<>>]
Unread == [m \in MaskNames |-> "unread"]

\* The state in which a run of process_labels starts.  create_directories
\* keeps an output directory that is already there (exist_ok=True), so any
\* of the samples' label files may exist, left by an earlier run.
Init ==
    /\ cur = 1
    /\ k = 1
    /\ status = "running"
    /\ err = "none"
    /\ exists \in SUBSET Samples
    /\ existed = (1 \in exists)
    /\ IF 1 \in exists
       THEN \E old \in LabelRasters : out = <<old>>
       ELSE out = <<>>
    /\ seen = Unread
    /\ label = NoLabels
    /\ raw = <<>>
    /\ writes = 0
    /\ rescaler = <<>> /\ orders = <<>> /\ rerun = <<>>
    /\ workers = <<>> /\ matching = <<>> /\ extract = <<>>

InLoop == status = "running" /\ k <= Len(MASKS_TO_LOAD)
\* Mutant of mask_name: the masks are iterated in an order that is not the
\* same in every run (a set in place of the list).
mask_name_unordered ==
    IF rerun.run = 2
    THEN <<"uaxon", "nuclei", "axonmyelin", "process">>[k]
    ELSE MASKS_TO_LOAD[k]
mask_name == MASKS_TO_LOAD[k]

\* Mutant of Raise: the error is caught and the rest of the sample skipped.
RaiseSkipsSample(e) ==
    /\ status' = "running"
    /\ err' = e
    /\ k' = Len(MASKS_TO_LOAD) + 1
\* An exception nobody catches: it leaves both loops and process_labels.
Raise(e) ==
    /\ status' = "failed"
    /\ err' = e
    /\ k' = k

\* assert label_path.exists() fails for uaxon or axonmyelin.
MissingMandatory ==
    /\ InLoop
    /\ mask_name \in Mandatory
    /\ seen' = [seen EXCEPT ![mask_name] = "absent"]
    /\ Raise("AssertionError")
    /\ UNCHANGED <<cur, exists, out, existed, label, raw, writes>>

\* elif not label_path.exists(): continue
SkipOptional ==
    /\ InLoop
    /\ mask_name \notin Mandatory
    /\ seen' = [seen EXCEPT ![mask_name] = "absent"]
    /\ k' = k + 1
    /\ UNCHANGED <<cur, status, err, exists, out, existed, label, raw, writes>>

\* Mutant of ApplyFirst: the uaxon mask replaces an output file that exists.
ApplyFirstAlways ==
    /\ InLoop
    /\ mask_name = "uaxon"
    /\ \E img \in RawMasks :
        LET lab == Rescale(img, RescalingFactor(mask_name))
        IN  /\ raw' = <<img>>
            /\ label' = [label EXCEPT ![mask_name] = <<lab>>]
            /\ out' = <<ImWrite(lab)>>
    /\ seen' = [seen EXCEPT ![mask_name] = "present"]
    /\ exists' = exists \cup {cur}
    /\ writes' = writes + 1
    /\ k' = k + 1
    /\ UNCHANGED <<cur, status, err, existed>>
\* The uaxon mask of a sample with no output file: the rescaled mask is
\* written as the output file.
ApplyFirst ==
    /\ InLoop
    /\ mask_name = "uaxon"
    /\ cur \notin exists
    /\ \E img \in RawMasks :
        LET lab == Rescale(img, RescalingFactor(mask_name))
        IN  /\ raw' = <<img>>
            /\ label' = [label EXCEPT ![mask_name] = <<lab>>]
            /\ out' = <<ImWrite(lab)>>
    /\ seen' = [seen EXCEPT ![mask_name] = "present"]
    /\ exists' = exists \cup {cur}
    /\ writes' = writes + 1
    /\ k' = k + 1
    /\ UNCHANGED <<cur, status, err, existed>>

\* Mutant of MergeMask: the merged raster is not written back.
MergeMaskNoWrite ==
    /\ InLoop
    /\ cur \in exists
    /\ \E img \in RawMasks :
        LET lab == Rescale(img, RescalingFactor(mask_name))
        IN  /\ img.shape = out[1].shape
            /\ raw' = <<img>>
            /\ label' = [label EXCEPT ![mask_name] = <<lab>>]
    /\ seen' = [seen EXCEPT ![mask_name] = "present"]
    /\ k' = k + 1
    /\ UNCHANGED <<cur, status, err, exists, existed, out, writes>>
\* Any other present mask (or uaxon when the output file exists): the output
\* file is read, the mask merged into it, and the file written again.
MergeMask ==
    /\ InLoop
    /\ cur \in exists
    /\ \E img \in RawMasks :
        LET lab == Rescale(img, RescalingFactor(mask_name))
        IN  /\ lab.shape = out[1].shape
            /\ raw' = <<img>>
            /\ label' = [label EXCEPT ![mask_name] = <<lab>>]
            /\ out' = <<ImWrite(Merge(out[1], lab, mask_name))>>
    /\ seen' = [seen EXCEPT ![mask_name] = "present"]
    /\ writes' = writes + 1
    /\ k' = k + 1
    /\ UNCHANGED <<cur, status, err, exists, existed>>

\* The same, the mask's shape differing from the output file's: the first
\* boolean-mask assignment raises IndexError, nothing is written.
MergeMismatch ==
    /\ InLoop
    /\ cur \in exists
    /\ \E img \in RawMasks :
        LET lab == Rescale(img, RescalingFactor(mask_name))
        IN  /\ lab.shape # out[1].shape
            /\ raw' = <<img>>
            /\ label' = [label EXCEPT ![mask_name] = <<lab>>]
    /\ seen' = [seen EXCEPT ![mask_name] = "present"]
    /\ Raise("IndexError")
    /\ UNCHANGED <<cur, exists, out, existed, writes>>

\* The sample's state when the loops reach it: its output file, not touched
\* by this run so far, holds what an earlier run left, if it exists.
StartSample(s) ==
    /\ cur' = s
    /\ k' = 1
    /\ seen' = Unread
    /\ label' = NoLabels
    /\ raw' = <<>>
    /\ writes' = 0
    /\ existed' = (s \in exists)
    /\ IF s \in exists
       THEN \E old \in LabelRasters : out' = <<old>>
       ELSE out' = <<>>

\* for image in ...: the inner loop is over, the next sample starts.
NextSample ==
    /\ status = "running"
    /\ k = Len(MASKS_TO_LOAD) + 1
    /\ cur < NSamples
    /\ StartSample(cur + 1)
    /\ UNCHANGED <<status, err, exists>>

\* The last sample is over: process_labels returns.
Finish ==
    /\ status = "running"
    /\ k = Len(MASKS_TO_LOAD) + 1
    /\ cur = NSamples
    /\ status' = "done"
    /\ UNCHANGED <<cur, k, err, exists, out, existed, seen, label, raw, writes>>

Next ==
    \/ MissingMandatory /\ UNCHANGED <<rescaler, orders, rerun, workers, matching, extract>>
    \/ SkipOptional /\ UNCHANGED <<rescaler, orders, rerun, workers, matching, extract>>
    \/ ApplyFirst /\ UNCHANGED <<rescaler, orders, rerun, workers, matching, extract>>
    \/ MergeMask /\ UNCHANGED <<rescaler, orders, rerun, workers, matching, extract>>
    \/ MergeMismatch /\ UNCHANGED <<rescaler, orders, rerun, workers, matching, extract>>
    \/ NextSample /\ UNCHANGED <<rescaler, orders, rerun, workers, matching, extract>>
    \/ Finish /\ UNCHANGED <<rescaler, orders, rerun, workers, matching, extract>>

Spec == Init /\ [][Next]_vars

\* ------------------------------------------------- vocabulary of the claims
\* The processing order and the output ids as the specification states them.
Order == <<"uaxon", "axonmyelin", "nuclei", "process">>
Optional == {"nuclei", "process"}

OutputId(m, level) ==
    IF m = "uaxon" THEN (IF level = 1 THEN 1 ELSE 0)
    ELSE IF m = "axonmyelin"
    THEN (IF level = 1 THEN 2 ELSE IF level = 2 THEN 3 ELSE 0)
    ELSE IF m = "nuclei" THEN (IF level = 1 THEN 4 ELSE 0)
    ELSE (IF level = 1 THEN 5 ELSE 0)

Level(m, p) == label[m][1].px[p]
ClaimsPixel(m, p) == label[m] # <<>> /\ Level(m, p) # 0

\* The id of the last class among the first j of the order whose rescaled
\* mask is non-zero at pixel p; 0 if there is none.
RECURSIVE LastClaim(_, _)
LastClaim(p, j) ==
    IF j = 0 THEN 0
    ELSE IF ClaimsPixel(Order[j], p) THEN OutputId(Order[j], Level(Order[j], p))
    ELSE LastClaim(p, j - 1)

\* The state the inner loop leaves a sample in: every entry applied or skipped.
SampleFused == status # "failed" /\ k = Len(Order) + 1

\* The raw mask read last is the axonmyelin mask.
AxonmyelinRaw ==
    /\ raw # <<>>
    /\ seen["axonmyelin"] = "present"
    /\ seen["nuclei"] # "present"
    /\ seen["process"] # "present"

Abs(x) == IF x < 0 THEN -x ELSE x

\* ------------------------------------------------------------------ C1
\* C1: for a sample with no output file beforehand, after each class has
\* been applied or skipped every pixel of the label raster is the output id
\* of the last class processed so far whose rescaled mask is non-zero there,
\* and 0 if there is none.
C1_OverwriteByRecency ==
    (~existed /\ out # <<>>) =>
        \A p \in Pixels : out[1].px[p] = LastClaim(p, k - 1)

\* uaxon and axonmyelin (axon level) overlap at a pixel that nuclei, present,
\* does not claim: the fused pixel is the axon id, not the uaxon id.
C1_Witness ==
    /\ ~existed
    /\ SampleFused
    /\ seen["nuclei"] = "present"
    /\ \E p \in Pixels :
        /\ Level("uaxon", p) = 1
        /\ Level("axonmyelin", p) = 2
        /\ Level("nuclei", p) = 0
        /\ ~ClaimsPixel("process", p)
        /\ out[1].px[p] = 3

\* ------------------------------------------------------------------ C2
\* C2: when the uaxon file of a sample is absent the run has failed with the
\* assertion on the mandatory label, and if the sample had no output file
\* beforehand nothing was written and it has none afterward.
C2_MissingUaxonFails ==
    seen["uaxon"] = "absent" =>
        /\ status = "failed"
        /\ err = "AssertionError"
        /\ ~existed => (cur \notin exists /\ out = <<>> /\ writes = 0)

C2_Witness ==
    seen["uaxon"] = "absent" /\ ~existed /\ status = "failed"

\* ------------------------------------------------------------------ C3
\* C3 (as claimed): when the uaxon file is present and the axonmyelin file
\* absent, for a sample with no output file beforehand, fusion has failed
\* with the assertion and the sample has no output file.
C3_MissingAxonmyelinLeavesNoOutput ==
    (~existed /\ seen["uaxon"] = "present" /\ seen["axonmyelin"] = "absent") =>
        /\ status = "failed"
        /\ err = "AssertionError"
        /\ cur \notin exists
        /\ out = <<>>

\* ------------------------------------------------------------------ C4
\* C4 (as claimed): when the rescaled mask of a class after uaxon has a
\* shape other than uaxon's, fusion has failed with the shape error and no
\* output raster is persisted for the sample (stated for a sample that had
\* no output file beforehand, so that any file is this run's).
C4_MismatchLeavesNoOutput ==
    \A j \in 2..Len(Order) :
        (/\ ~existed
         /\ label["uaxon"] # <<>>
         /\ label[Order[j]] # <<>>
         /\ label[Order[j]][1].shape # label["uaxon"][1].shape) =>
            /\ status = "failed"
            /\ err = "IndexError"
            /\ cur \notin exists
            /\ out = <<>>

\* ------------------------------------------------------------------ C5
\* C5 (as claimed): an axonmyelin raw mask with a pixel that is no multiple
\* of 127 makes fusion fail with InvalidIntensity.
C5_InvalidIntensityRaised ==
    (AxonmyelinRaw /\ \E p \in Pixels : raw[1].px[p] % 127 # 0) =>
        (status = "failed" /\ err = "InvalidIntensity")

\* C5 (amended): no intensity makes the rescaling fail: every pixel of the
\* axonmyelin mask gets the level nearest to intensity / 127 (190 gets 1),
\* and where the mask was merged the pixel carries that level's class
\* (level 1: myelin, 2; level 2: axon, 3).
C5_RoundedToNearestLevel ==
    /\ err # "InvalidIntensity"
    /\ AxonmyelinRaw =>
        \A p \in Pixels :
            /\ 2 * Abs(raw[1].px[p] - 127 * Level("axonmyelin", p)) < 127
            /\ raw[1].px[p] = 190 => Level("axonmyelin", p) = 1
            /\ (status # "failed" /\ Level("axonmyelin", p) # 0) =>
                   out[1].px[p] = Level("axonmyelin", p) + 1

\* A pixel of intensity 190 was merged as myelin.
C5_Witness ==
    /\ AxonmyelinRaw
    /\ status = "running"
    /\ \E p \in Pixels : raw[1].px[p] = 190 /\ out[1].px[p] = 2

\* ------------------------------------------------------------------ C6
\* The levels the intensities of S rescale to under divisor d.
LevelsOf(S, d) == {NpRound(x, d) : x \in S}

\* C6: for a sample with no output file beforehand, every pixel of the
\* label raster is in {0,1,2,3,4,5} after every step, whatever the raw
\* intensities and whichever optional masks are present.  The intensities
\* of RawValues stand for all of 0..255: under either divisor they rescale
\* to the same levels as the 256 intensities do (evaluated once, when the
\* run starts).
C6_RangeInvariant ==
    /\ (~existed /\ out # <<>>) =>
           \A p \in Pixels : out[1].px[p] \in {0, 1, 2, 3, 4, 5}
    /\ (cur = 1 /\ k = 1) =>
           \A m \in MaskNames :
               LevelsOf(0..255, RescalingFactor(m))
                   = LevelsOf(RawValues, RescalingFactor(m))

\* A fused sample whose process mask held the off-grid intensity 190.
C6_Witness ==
    /\ ~existed
    /\ SampleFused
    /\ seen["process"] = "present"
    /\ \E p \in Pixels : raw[1].px[p] = 190 /\ out[1].px[p] = 5

\* ------------------------------------------------------------------ C7
\* The step of the inner loop that finds the file of mask m absent.
FindsAbsent(m) == seen[m] = "unread" /\ seen'[m] = "absent"
NoPixelOf(r, id) == r # <<>> => \A p \in Pixels : r[1].px[p] # id

\* C7 (as claimed): the step that finds the nuclei or process file absent
\* raises nothing, leaves the raster as it is and goes on to the next entry;
\* and a raster whose nuclei (process) file was absent holds no 4 (5).
C7_OptionalAbsentAnySample ==
    [][\A m \in Optional :
          /\ FindsAbsent(m) =>
                (status' = "running" /\ err' = "none" /\ out' = out
                 /\ k' = k + 1)
          /\ seen'[m] = "absent" => NoPixelOf(out', OutputId(m, 1))]_vars

\* C7 (amended): the same, the absence of the ids 4 and 5 holding for a
\* sample that had no output file beforehand.
C7_OptionalAbsentFreshSample ==
    [][\A m \in Optional :
          /\ FindsAbsent(m) =>
                (status' = "running" /\ err' = "none" /\ out' = out
                 /\ k' = k + 1)
          /\ (seen'[m] = "absent" /\ ~existed') =>
                NoPixelOf(out', OutputId(m, 1))]_vars

\* A sample fused to the end with both optional files absent.
C7_Witness ==
    /\ ~existed
    /\ SampleFused
    /\ seen["nuclei"] = "absent"
    /\ seen["process"] = "absent"
    /\ \E p \in Pixels : out[1].px[p] = 2

\* ------------------------------------------------------------------ C8
\* C8 (as claimed): a failure aborts only its sample, so the run never ends
\* in a failure while samples after the failed one are left unprocessed.
C8_FailureLeavesBatchRunning ==
    status = "failed" => cur = NSamples

\* C8 (amended): a failure ends the whole run: the run is failed as soon
\* as an error is raised, and no step of the run follows a failure, so the
\* samples after the failed one are not processed.
C8_FailureAbortsRun ==
    [][/\ err' # "none" => status' = "failed"
       /\ status # "failed"]_vars

\* The run failed at a sample before the last, and a later sample has no
\* output file.
C8_Witness ==
    /\ status = "failed"
    /\ cur < NSamples
    /\ \E s \in Samples : s > cur /\ s \notin exists

\* ------------------------------------------------------------------ C9
\* C9 (as claimed): the output file of a sample is written once, and only
\* after the last entry has been applied or skipped.
C9_WrittenOnceAtTheEnd ==
    /\ writes <= 1
    /\ writes >= 1 => k = Len(Order) + 1

\* C9 (amended): the output file is written once per applied class: the
\* number of writes is the number of present masks among the entries
\* processed so far (a skipped entry and a failed one write nothing).
C9_WrittenPerAppliedClass ==
    writes = Cardinality({j \in 1..Len(Order) :
                 j < k /\ seen[Order[j]] = "present"})

\* All four masks present: four writes.
C9_Witness ==
    SampleFused /\ writes = 4 /\ seen["process"] = "present"

\* ----------------------------------------------------------------- C10
\* The step that probes the file of mask m.
Probes(m) == seen[m] = "unread" /\ seen'[m] # "unread"
InOrder(m) ==
    /\ k <= Len(Order)
    /\ m = Order[k]
    /\ \A j \in 1..Len(Order) : j < k => seen[Order[j]] # "unread"
    /\ \A j \in 1..Len(Order) : j > k => seen'[Order[j]] = "unread"
\* A probed mask is not probed again before the next sample is started.
AtMostOnce(m) ==
    (seen[m] # "unread" /\ seen'[m] # seen[m]) => (k' = 1 /\ seen' = Unread)
InitializesRaster ==
    /\ out' = label'["uaxon"]
    /\ \A m \in MaskNames \ {"uaxon"} : seen[m] = "unread"

\* C10 (as claimed): for every sample the masks are probed in the order
\* uaxon, axonmyelin, nuclei, process, each at most once, and the uaxon mask,
\* applied first, becomes the raster as it is.
C10_OrderAnySample ==
    [][\A m \in MaskNames :
          /\ Probes(m) => InOrder(m)
          /\ AtMostOnce(m)
          /\ (m = "uaxon" /\ Probes(m) /\ seen'[m] = "present"
              /\ status' = "running") => InitializesRaster]_vars

\* C10 (amended): the same, the uaxon mask becoming the raster as it is for
\* a sample with no output file beforehand; when the file exists the uaxon
\* mask is merged into it like the other masks.
C10_OrderFreshSample ==
    [][\A m \in MaskNames :
          /\ Probes(m) => InOrder(m)
          /\ AtMostOnce(m)
          /\ (m = "uaxon" /\ Probes(m) /\ seen'[m] = "present" /\ ~existed)
                => (out = <<>> /\ InitializesRaster)
          /\ (m = "uaxon" /\ Probes(m) /\ seen'[m] = "present" /\ existed
              /\ status' = "running")
                => \A p \in Pixels :
                      out'[1].px[p] = IF label'[m][1].px[p] = 1 THEN 1
                                      ELSE out[1].px[p]]_vars

\* All four masks were applied to a sample with no output file beforehand.
C10_Witness ==
    /\ ~existed
    /\ SampleFused
    /\ \A m \in MaskNames : seen[m] = "present"

\* ------------------------------------------------------------------ C22
\* The largest of the ids the masks read so far contribute at pixel p; 0 if
\* none contributes.
ContributedIds(p) ==
    {OutputId(m, Level(m, p)) : m \in {n \in MaskNames : label[n] # <<>>}}
MaxOf(S) == IF S = {} THEN 0 ELSE CHOOSE x \in S : \A y \in S : y <= x
\* A step that leaves the output file of the same, fresh, sample in place.
FusionStepOnFile ==
    /\ ~existed
    /\ cur' = cur
    /\ out # <<>>
    /\ out' # <<>>

\* C22: during the fusion of a sample with no output file beforehand no
\* pixel of the output file decreases from one step to the next and no pixel
\* becomes 1 once the file is there (so a pixel that has left 1 does not
\* return to it); and when the sample is fused every pixel holds the largest
\* of the ids the present classes contribute there, 0 where none does.
C22_MonotonePixels ==
    /\ [][FusionStepOnFile =>
            \A p \in Pixels :
                /\ out'[1].px[p] >= out[1].px[p]
                /\ out[1].px[p] # 1 => out'[1].px[p] # 1]_vars
    /\ []((SampleFused /\ ~existed) =>
            \A p \in Pixels : out[1].px[p] = MaxOf(ContributedIds(p)))

\* A fresh sample was fused whose pixel 1 all four classes claim: it went
\* from 1 up to 5, the largest contributed id.
C22_Witness ==
    /\ SampleFused
    /\ ~existed
    /\ \A m \in MaskNames : seen[m] = "present"
    /\ Level("uaxon", 1) = 1
    /\ Level("axonmyelin", 1) = 2
    /\ Level("nuclei", 1) = 1
    /\ Level("process", 1) = 1
    /\ out[1].px[1] = 5
    /\ MaxOf(ContributedIds(1)) = 5

\* ============================================================ SpecRescale
\* The rescaling of one pixel, as both conversion scripts do it, for every
\* intensity an 8-bit grayscale image can hold.
\* rescaler = [script, mask, x, d, level]: the script ("v1", "v2"), the mask
\* type, the intensity read, its divisor, and <<>> or <<the rescaled value>>.

\* convert_bids_to_nnunet_format.py: the divisor of each label type.
label_type_to_divisor == [axonmyelin |-> 127, myelin |-> 255, uaxon |-> 255]

Intensities == 0..255

InitRescale ==
    /\ \E x \in Intensities :
          \/ \E m \in MaskNames :
                rescaler = [script |-> "v2", mask |-> m, x |-> x,
                            d |-> RescalingFactor(m), level |-> <<>>]
          \/ \E t \in DOMAIN label_type_to_divisor :
                rescaler = [script |-> "v1", mask |-> t, x |-> x,
                            d |-> label_type_to_divisor[t], level |-> <<>>]
    /\ cur = 0 /\ k = 0 /\ status = "idle" /\ err = "none" /\ exists = {}
    /\ out = <<>> /\ existed = FALSE /\ seen = Unread /\ label = NoLabels
    /\ raw = <<>> /\ writes = 0
    /\ orders = <<>> /\ rerun = <<>> /\ workers = <<>>
    /\ matching = <<>> /\ extract = <<>>

\* label = np.round(cv2.imread(...) / rescaling_factor), one pixel of it.
RescalePixelV2 ==
    /\ rescaler.script = "v2"
    /\ rescaler.level = <<>>
    /\ rescaler' = [rescaler EXCEPT
                      !.level = <<NpRound(rescaler.x, rescaler.d)>>]
    /\ UNCHANGED <<fusion, orders, rerun, workers, matching, extract>>

\* label = np.round(cv2.imread(...) / label_type_to_divisor[label_type])
RescalePixelV1 ==
    /\ rescaler.script = "v1"
    /\ rescaler.level = <<>>
    /\ rescaler' = [rescaler EXCEPT
                      !.level = <<NpRound(rescaler.x, rescaler.d)>>]
    /\ UNCHANGED <<fusion, orders, rerun, workers, matching, extract>>

NextRescale == RescalePixelV2 \/ RescalePixelV1

SpecRescale == InitRescale /\ [][NextRescale]_vars

\* C19: for every 8-bit intensity x the rescaled value v is the integer
\* nearest to x / divisor, strictly nearer than any other (no tie arises);
\* v is 0 or 1 for divisor 255 and 0, 1 or 2 for divisor 127; an exact
\* multiple k * divisor gives k.
C19_RescaledToNearest ==
    rescaler.level # <<>> =>
        LET x == rescaler.x
            d == rescaler.d
            v == rescaler.level[1]
        IN  /\ 2 * Abs(x - v * d) < d
            /\ d = 255 => v \in {0, 1}
            /\ d = 127 => v \in {0, 1, 2}
            /\ \A j \in 0..2 : x = j * d => v = j

\* An intensity that is no multiple of its divisor was rescaled by both
\* scripts' arithmetic: 190 / 127 gives 1.
C19_Witness ==
    /\ rescaler.level = <<1>>
    /\ rescaler.x = 190
    /\ rescaler.d = 127

\* ============================================================== SpecOrder
\* The overwrite steps of lines 164-173 as operations on a raster, applied
\* to the masks of one sample in an arbitrary order of the four classes and,
\* beside it, in that order with two of its positions exchanged.  Both
\* sequences start from the all-background raster: merging the uaxon mask
\* into it gives the raster that line 163 writes when uaxon comes first.
\* orders = [masks, perm, i, j, step, grid, gridSw].

\* The intensities the annotation masks hold by convention: 0 and 255 in a
\* binary mask; 0, 127 (myelin) and 255 (axon) in an axonmyelin mask.
NominalLevels(m) == IF m = "axonmyelin" THEN {0, 127, 255} ELSE {0, 255}
NominalMasks(m) == [shape : {1}, px : [Pixels -> NominalLevels(m)]]

Positions == 1..Len(MASKS_TO_LOAD)
Orders == {f \in [Positions -> MaskNames] : \A a, b \in Positions : f[a] = f[b] => a = b}
Exchanged(perm, i, j) ==
    [n \in Positions |->
        IF n = i THEN perm[j] ELSE IF n = j THEN perm[i] ELSE perm[n]]
Background == [shape |-> 1, px |-> [p \in Pixels |-> CLASS_MAPPING["background"]]]

InitOrder ==
    /\ \E masks \in [MaskNames -> UNION {NominalMasks(m) : m \in MaskNames}] :
       \E perm \in Orders :
       \E i, j \in Positions :
          /\ \A m \in MaskNames : masks[m] \in NominalMasks(m)
          /\ i < j
          /\ orders = [masks |-> masks, perm |-> perm, i |-> i, j |-> j,
                       step |-> 0, grid |-> Background, gridSw |-> Background]
    /\ cur = 0 /\ k = 0 /\ status = "idle" /\ err = "none" /\ exists = {}
    /\ out = <<>> /\ existed = FALSE /\ seen = Unread /\ label = NoLabels
    /\ raw = <<>> /\ writes = 0
    /\ rescaler = <<>> /\ rerun = <<>> /\ workers = <<>>
    /\ matching = <<>> /\ extract = <<>>

\* One overwrite step (rescale the mask, read the raster, assign the class's
\* pixels, write the raster) with class m.
OverwriteStep(grid, masks, m) ==
    ImWrite(Merge(grid, Rescale(masks[m], RescalingFactor(m)), m))

\* The next class of each of the two sequences is applied.
ApplyNextClass ==
    /\ orders.step < Len(MASKS_TO_LOAD)
    /\ LET n == orders.step + 1
           sw == Exchanged(orders.perm, orders.i, orders.j)
       IN  orders' = [orders EXCEPT
              !.step = n,
              !.grid = OverwriteStep(orders.grid, orders.masks, orders.perm[n]),
              !.gridSw = OverwriteStep(orders.gridSw, orders.masks, sw[n])]
    /\ UNCHANGED <<fusion, rescaler, rerun, workers, matching, extract>>

NextOrder == ApplyNextClass

SpecOrder == InitOrder /\ [][NextOrder]_vars

OrderLevel(m, p) == orders.masks[m].px[p] \div RescalingFactor(m)
AllApplied == orders.step = Len(MASKS_TO_LOAD)

\* C11: for two classes a (applied earlier) and b (applied later) whose
\* rescaled masks are both non-zero at a pixel that no class applied after
\* b claims, the pixel ends as b's id; with the two classes exchanged in the
\* order it ends as a's id, which is a different value.
C11_OrderMatters ==
    AllApplied =>
        LET a == orders.perm[orders.i]
            b == orders.perm[orders.j]
        IN  \A p \in Pixels :
              (/\ OrderLevel(a, p) # 0
               /\ OrderLevel(b, p) # 0
               /\ \A n \in Positions :
                     n > orders.j => OrderLevel(orders.perm[n], p) = 0)
              => /\ orders.grid.px[p] = OutputId(b, OrderLevel(b, p))
                 /\ orders.gridSw.px[p] = OutputId(a, OrderLevel(a, p))
                 /\ orders.grid.px[p] # orders.gridSw.px[p]

\* Nuclei was applied before axonmyelin, both claim pixel 1 and no later
\* class does; the exchanged sequence applied them the other way round.
C11_Witness ==
    /\ AllApplied
    /\ orders.perm[orders.i] = "nuclei"
    /\ orders.perm[orders.j] = "axonmyelin"
    /\ OrderLevel("nuclei", 1) = 1
    /\ OrderLevel("axonmyelin", 1) = 2
    /\ \A n \in Positions : n > orders.j => OrderLevel(orders.perm[n], 1) = 0
    /\ orders.grid.px[1] = 3
    /\ orders.gridSw.px[1] = 4

\* No pixel is claimed by two classes.
DisjointMasks ==
    \A p \in Pixels : \A a, b \in MaskNames :
        (OrderLevel(a, p) # 0 /\ OrderLevel(b, p) # 0) => a = b

MaskFiles(m) == {<<>>} \cup {<<img>> : img \in NominalMasks(m)}
\* The output files an earlier run may have left: one class all over, in
\* any shape.
StaleRasters ==
    {[shape |-> sh, px |-> [p \in Pixels |-> v]] :
        sh \in Shapes, v \in LabelValues}

InitRerun ==
    /\ cur = NSamples
    /\ k = 1
    /\ status = "running"
    /\ err = "none"
    /\ exists \in {{}, {NSamples}}
    /\ existed = (cur \in exists)
    /\ IF cur \in exists
       THEN \E old \in StaleRasters : out = <<old>>
       ELSE out = <<>>
    /\ seen = Unread
    /\ label = NoLabels
    /\ raw = <<>>
    /\ writes = 0
    /\ \E masks \in [MaskNames -> UNION {MaskFiles(m) : m \in MaskNames}] :
          /\ \A m \in MaskNames : masks[m] \in MaskFiles(m)
          /\ rerun = [masks |-> masks, run |-> 1, prior |-> out,
                      start |-> out, first |-> <<>>, firstStatus |-> "none",
                      between |-> "none"]
    /\ rescaler = <<>> /\ orders = <<>> /\ workers = <<>>
    /\ matching = <<>> /\ extract = <<>>

\* What the step just taken found at label_path is the sample's mask file.
InputsAgree ==
    \/ seen'[mask_name] = "absent" /\ rerun.masks[mask_name] = <<>>
    \/ seen'[mask_name] = "present" /\ raw' = rerun.masks[mask_name]

\* The script is started again; before that the sample's output file was
\* deleted.
DeleteAndRunAgain ==
    /\ rerun.run = 1
    /\ status \in {"done", "failed"}
    /\ rerun' = [rerun EXCEPT !.run = 2, !.first = out, !.firstStatus = status,
                              !.between = "deleted", !.start = <<>>]
    /\ exists' = exists \ {cur}
    /\ out' = <<>>
    /\ existed' = FALSE
    /\ k' = 1 /\ status' = "running" /\ err' = "none"
    /\ seen' = Unread /\ label' = NoLabels /\ raw' = <<>> /\ writes' = 0
    /\ UNCHANGED <<cur, rescaler, orders, workers, matching, extract>>

\* The script is started again over the output folder as the first run left
\* it (create_directories: exist_ok=True).
KeepAndRunAgain ==
    /\ rerun.run = 1
    /\ status \in {"done", "failed"}
    /\ rerun' = [rerun EXCEPT !.run = 2, !.first = out, !.firstStatus = status,
                              !.between = "kept", !.start = out]
    /\ existed' = (cur \in exists)
    /\ k' = 1 /\ status' = "running" /\ err' = "none"
    /\ seen' = Unread /\ label' = NoLabels /\ raw' = <<>> /\ writes' = 0
    /\ UNCHANGED <<cur, exists, out, rescaler, orders, workers, matching, extract>>

NextRerun ==
    \/ MissingMandatory /\ InputsAgree
          /\ UNCHANGED <<rescaler, orders, rerun, workers, matching, extract>>
    \/ SkipOptional /\ InputsAgree
          /\ UNCHANGED <<rescaler, orders, rerun, workers, matching, extract>>
    \/ ApplyFirst /\ InputsAgree
          /\ UNCHANGED <<rescaler, orders, rerun, workers, matching, extract>>
    \/ MergeMask /\ InputsAgree
          /\ UNCHANGED <<rescaler, orders, rerun, workers, matching, extract>>
    \/ MergeMismatch /\ InputsAgree
          /\ UNCHANGED <<rescaler, orders, rerun, workers, matching, extract>>
    \/ Finish /\ UNCHANGED <<rescaler, orders, rerun, workers, matching, extract>>
    \/ DeleteAndRunAgain
    \/ KeepAndRunAgain

SpecRerun == InitRerun /\ [][NextRerun]_vars

\* Both runs returned normally and the second has just ended.
BothRunsDone ==
    /\ rerun.run = 2
    /\ status = "done"
    /\ rerun.firstStatus = "done"

C20_IndependentOfPriorOutput ==
    BothRunsDone => out = rerun.first

\* C20 (amended): when a run returns, a pixel claimed by a present mask holds
\* the id of the last class claiming it; a pixel no present mask claims
\* holds what the output file held when the run started, 0 if there was no
\* file.
C20_UnclaimedKeepsPriorOutput ==
    (status = "done") =>
        \A p \in Pixels :
            IF \E m \in MaskNames : ClaimsPixel(m, p)
            THEN out[1].px[p] = LastClaim(p, Len(Order))
            ELSE out[1].px[p] =
                    IF rerun.start = <<>> THEN 0 ELSE rerun.start[1].px[p]

\* C21: a second run on the same input masks over the output file the first
\* run left in place ends with the raster the first run ended with.
C21_SameWithoutDeletion ==
    (BothRunsDone /\ rerun.between = "kept") => out = rerun.first

\* The second run merged a uaxon mask and an axonmyelin mask, both claiming
\* pixel 1, into the file the first run had left.
C21_Witness ==
    /\ BothRunsDone
    /\ rerun.between = "kept"
    /\ existed
    /\ rerun.start # <<>>
    /\ seen["uaxon"] = "present" /\ Level("uaxon", 1) = 1
    /\ seen["axonmyelin"] = "present" /\ Level("axonmyelin", 1) = 1
    /\ out[1].px[1] = 2

\* A run returned over an output file left with a process pixel that none
\* of the sample's masks claims.
C20_Witness ==
    /\ status = "done"
    /\ rerun.start # <<>>
    /\ rerun.start[1].px[1] = 5
    /\ \A m \in MaskNames : ~ClaimsPixel(m, 1)
    /\ out[1].px[1] = 5

\* ============================================================ SpecWorkers
\* Two workers, each running the mask loop of process_labels on a sample of
\* its own, their steps interleaved.  A step is one access to a file: a mask
\* file is probed and read, the output file is tested or read, the output
\* file is written.  The output file of a sample is the one named by its
\* case id, which create_bids_to_nnunet_dict takes from samples.tsv.
\* workers = [rows, ids, files, w, overlapped]:
\*   rows        the (participant, sample) keys of samples.tsv, in file order
\*   ids         bids_to_nnunet_dict: key -> case id
\*   files       case id -> <<>> or <<raster>>: the output label files
\*   w           per worker [sample, masks, k, pc, label, existing, status]
\*   overlapped  both workers were at once between a read and its write

\* Mutant of CreateDict: num is not incremented.
RECURSIVE CreateDictNoIncrement(_, _, _, _)
CreateDictNoIncrement(rows, n, num, dict) ==
    IF n > Len(rows) THEN dict
    ELSE CreateDictNoIncrement(rows, n + 1, num, [dict EXCEPT ![rows[n]] = num])
\* for row in reader: bids_to_nnunet_dict[key] = num; num += 1
\* (dict holds 0 for a key that has no entry yet)
RECURSIVE CreateDict(_, _, _, _)
CreateDict(rows, n, num, dict) ==
    IF n > Len(rows) THEN dict
    ELSE CreateDict(rows, n + 1, num + 1, [dict EXCEPT ![rows[n]] = num])

Workers == {"w1", "w2"}
TsvRows == {r \in [Samples -> Samples] : \A a, b \in Samples : r[a] = r[b] => a = b}

\* Mask files of a worker's sample: absent, or an image of one intensity.
UniformMasks(m) ==
    {[shape |-> 1, px |-> [p \in Pixels |-> v]] : v \in NominalLevels(m) \ {0}}
WorkerMaskFiles(m) == {<<>>} \cup {<<img>> : img \in UniformMasks(m)}

\* process_labels on one sample alone, from entry n of MASKS_TO_LOAD on, the
\* output file being file: the output file it leaves.
RECURSIVE Fuse(_, _, _)
Fuse(masks, n, file) ==
    IF n > Len(MASKS_TO_LOAD) THEN file
    ELSE LET m == MASKS_TO_LOAD[n]
         IN  IF masks[m] = <<>>
             THEN IF m \in Mandatory THEN file ELSE Fuse(masks, n + 1, file)
             ELSE LET lab == Rescale(masks[m][1], RescalingFactor(m))
                  IN  IF m = "uaxon" /\ file = <<>>
                      THEN Fuse(masks, n + 1, <<ImWrite(lab)>>)
                      ELSE IF file = <<>> \/ lab.shape # file[1].shape
                      THEN file
                      ELSE Fuse(masks, n + 1,
                                <<ImWrite(Merge(file[1], lab, m))>>)

InitWorkers ==
    /\ \E rows \in TsvRows :
       \E s1, s2 \in Samples :
       \E masks \in [Workers -> [MaskNames ->
                        UNION {WorkerMaskFiles(m) : m \in MaskNames}]] :
          /\ s1 < s2
          /\ \A w \in Workers : \A m \in MaskNames :
                masks[w][m] \in WorkerMaskFiles(m)
          /\ workers =
               [rows |-> rows,
                ids |-> CreateDict(rows, 1, 1, [s \in Samples |-> 0]),
                files |-> [c \in Samples |-> <<>>],
                w |-> [w \in Workers |->
                         [sample |-> IF w = "w1" THEN s1 ELSE s2,
                          masks |-> masks[w], k |-> 1, pc |-> "probe",
                          label |-> <<>>, existing |-> <<>>,
                          status |-> "running"]],
                overlapped |-> FALSE]
    /\ cur = 0 /\ k = 0 /\ status = "idle" /\ err = "none" /\ exists = {}
    /\ out = <<>> /\ existed = FALSE /\ seen = Unread /\ label = NoLabels
    /\ raw = <<>> /\ writes = 0
    /\ rescaler = <<>> /\ orders = <<>> /\ rerun = <<>>
    /\ matching = <<>> /\ extract = <<>>

WMask(w) == MASKS_TO_LOAD[workers.w[w].k]
WCase(w) == workers.ids[workers.w[w].sample]
WAt(w, pc) ==
    /\ workers.w[w].status = "running"
    /\ workers.w[w].k <= Len(MASKS_TO_LOAD)
    /\ workers.w[w].pc = pc
MidWrite(ws) ==
    \A w \in Workers : ws[w].pc \in {"write", "writefirst"}
WorkerStep(w, new, files) ==
    LET ws == [workers.w EXCEPT ![w] = new]
    IN  /\ workers' = [workers EXCEPT
                         !.w = ws, !.files = files,
                         !.overlapped = workers.overlapped \/ MidWrite(ws)]
        /\ UNCHANGED <<fusion, rescaler, orders, rerun, matching, extract>>

\* assert label_path.exists() fails.
WMissingMandatory(w) ==
    /\ WAt(w, "probe")
    /\ workers.w[w].masks[WMask(w)] = <<>>
    /\ WMask(w) \in Mandatory
    /\ WorkerStep(w, [workers.w[w] EXCEPT !.status = "failed"], workers.files)

\* elif not label_path.exists(): continue
WSkipOptional(w) ==
    /\ WAt(w, "probe")
    /\ workers.w[w].masks[WMask(w)] = <<>>
    /\ WMask(w) \notin Mandatory
    /\ WorkerStep(w, [workers.w[w] EXCEPT !.k = @ + 1], workers.files)

\* label = np.round(cv2.imread(label_path) / rescaling_factor)
WReadMask(w) ==
    /\ WAt(w, "probe")
    /\ workers.w[w].masks[WMask(w)] # <<>>
    /\ WorkerStep(w, [workers.w[w] EXCEPT
                        !.label = <<Rescale(workers.w[w].masks[WMask(w)][1],
                                            RescalingFactor(WMask(w)))>>,
                        !.pc = "test"],
                  workers.files)

\* if mask_name == "uaxon" and not output_fname.exists(): true
WTestAbsent(w) ==
    /\ WAt(w, "test")
    /\ WMask(w) = "uaxon"
    /\ workers.files[WCase(w)] = <<>>
    /\ WorkerStep(w, [workers.w[w] EXCEPT !.pc = "writefirst"], workers.files)

\* else: existing_label = cv2.imread(output_fname); the class's pixels are
\* assigned in the worker's copy.
WReadOutput(w) ==
    /\ WAt(w, "test")
    /\ workers.files[WCase(w)] # <<>>
    /\ workers.files[WCase(w)][1].shape = workers.w[w].label[1].shape
    /\ WorkerStep(w, [workers.w[w] EXCEPT
                        !.existing = <<Merge(workers.files[WCase(w)][1],
                                             workers.w[w].label[1], WMask(w))>>,
                        !.pc = "write"],
                  workers.files)

\* cv2.imwrite(output_fname, label)
WWriteFirst(w) ==
    /\ WAt(w, "writefirst")
    /\ WorkerStep(w, [workers.w[w] EXCEPT !.k = @ + 1, !.pc = "probe",
                                          !.label = <<>>],
                  [workers.files EXCEPT
                      ![WCase(w)] = <<ImWrite(workers.w[w].label[1])>>])

\* cv2.imwrite(output_fname, existing_label)
WWriteMerged(w) ==
    /\ WAt(w, "write")
    /\ WorkerStep(w, [workers.w[w] EXCEPT !.k = @ + 1, !.pc = "probe",
                                          !.label = <<>>, !.existing = <<>>],
                  [workers.files EXCEPT
                      ![WCase(w)] = <<ImWrite(workers.w[w].existing[1])>>])

\* The mask loop of the worker's sample is over.
WReturn(w) ==
    /\ workers.w[w].status = "running"
    /\ workers.w[w].k = Len(MASKS_TO_LOAD) + 1
    /\ WorkerStep(w, [workers.w[w] EXCEPT !.status = "done"], workers.files)

NextWorkers ==
    \E w \in Workers :
        \/ WMissingMandatory(w)
        \/ WSkipOptional(w)
        \/ WReadMask(w)
        \/ WTestAbsent(w)
        \/ WReadOutput(w)
        \/ WWriteFirst(w)
        \/ WWriteMerged(w)
        \/ WReturn(w)

SpecWorkers == InitWorkers /\ [][NextWorkers]_vars

WorkersEnded == \A w \in Workers : workers.w[w].status \in {"done", "failed"}

\* C14: distinct samples have distinct case ids, hence distinct output
\* files; and when two workers have fused two distinct samples with their
\* file accesses interleaved in any way, the output file of each sample
\* holds what process_labels leaves when it fuses that sample alone.
C14_WorkersDoNotInterfere ==
    /\ \A a, b \in Samples : a # b => workers.ids[a] # workers.ids[b]
    /\ WorkersEnded =>
          \A w \in Workers :
              workers.files[WCase(w)] = Fuse(workers.w[w].masks, 1, <<>>)

\* Both workers returned after being in the middle of a read-modify-write
\* at the same time; each fused a sample with all four masks.
C14_Witness ==
    /\ \A w \in Workers : workers.w[w].status = "done"
    /\ workers.overlapped
    /\ \A w \in Workers : \A m \in MaskNames : workers.w[w].masks[m] # <<>>
    /\ workers.files[WCase("w1")] # <<>>
    /\ workers.files[WCase("w2")] # <<>>

\* ------------------------------------------------------------------ C15
\* The in-memory procedure: the raster is kept in memory, the overwrite
\* steps of the masks that were present are applied to it in the order of
\* MASKS_TO_LOAD from entry n on, and nothing is written meanwhile.
RECURSIVE InMemory(_, _)
InMemory(n, grid) ==
    IF n > Len(Order) THEN grid
    ELSE IF label[Order[n]] = <<>> THEN InMemory(n + 1, grid)
    ELSE InMemory(n + 1, Merge(grid, label[Order[n]][1], Order[n]))

\* C15: when the mask loop of a sample that had no output file beforehand
\* ends without error, the output file holds the raster the in-memory
\* procedure writes: the rescaled uaxon mask, the other present masks merged
\* into it in order, written once at the end.
C15_FileAccumulatorRefinesInMemory ==
    (SampleFused /\ ~existed) =>
        out = <<ImWrite(InMemory(2, label["uaxon"][1]))>>

\* A fresh sample was fused from four masks, each of the last three
\* overwriting a pixel written to the file by an earlier step.
C15_Witness ==
    /\ SampleFused
    /\ ~existed
    /\ \A m \in MaskNames : seen[m] = "present" /\ Level(m, 1) # 0
    /\ writes = 4
    /\ out[1].px[1] = 5

\* ============================================================== SpecMatch
\* scripts/comparative_measurements/match_axons.py, main, for one image: the
\* rows of the manual measurements are matched to the axons of the automatic
\* segmentation through the instance map, whose value at a point is 0
\* outside the axons and i + 1 inside the axon of row i of the morphometrics.
\* matching = [promotion, vals, idx, axon_ids, axon_id, auto, skipped, status]:
\*   promotion  how the installed NumPy types `uint16 scalar - 1`
\*   vals       per row of df_manual: instance_map[x, y] at its coordinates
\*   idx        the row the loop is at
\*   axon_ids   the list of the ids found
\*   axon_id    output_df['axon_id'], per row <<>> (None) or <<id>>
\*   auto       per row <<>> or <<the row of df_auto copied to auto_*>>
\*   skipped    the rows left by `continue`
\*   status     "running", "written" (to_csv done) or "failed" (KeyError)

Rows == 1..NRows
AutoIndex == 0..(NAxons - 1)
InstanceValues == 0..NAxons

\* The result type of `instance_map[x, y] - 1`, instance_map an unsigned
\* 16-bit array: int64 under the value-based promotion of NumPy 1.x, uint16
\* (wrapping around) under NumPy 2.
Promotions == {"value_based", "nep50"}
MinusOne(v, promotion) ==
    IF promotion = "value_based" THEN v - 1 ELSE (v - 1) % (2 ^ 16)

InitMatch ==
    /\ \E promotion \in Promotions :
       \E vals \in [Rows -> InstanceValues] :
          matching = [promotion |-> promotion, vals |-> vals, idx |-> 1,
                      axon_ids |-> <<>>,
                      axon_id |-> [r \in Rows |-> <<>>],
                      auto |-> [r \in Rows |-> <<>>],
                      skipped |-> {}, status |-> "running"]
    /\ cur = 0 /\ k = 0 /\ status = "idle" /\ err = "none" /\ exists = {}
    /\ out = <<>> /\ existed = FALSE /\ seen = Unread /\ label = NoLabels
    /\ raw = <<>> /\ writes = 0
    /\ rescaler = <<>> /\ orders = <<>> /\ rerun = <<>>
    /\ workers = <<>> /\ extract = <<>>

InRows == matching.status = "running" /\ matching.idx <= NRows
\* axon_id = instance_map[x, y] - 1
AxonId == MinusOne(matching.vals[matching.idx], matching.promotion)

\* if axon_id < 0: print(...); continue
SkipRow ==
    /\ InRows
    /\ AxonId < 0
    /\ matching' = [matching EXCEPT !.idx = @ + 1,
                                    !.skipped = @ \cup {matching.idx}]
    /\ UNCHANGED <<fusion, rescaler, orders, rerun, workers, extract>>

\* axon_ids.append(axon_id); auto_row = df_auto.loc[axon_id]; the columns of
\* the row are set.
AssignRow ==
    /\ InRows
    /\ AxonId >= 0
    /\ AxonId \in AutoIndex
    /\ matching' = [matching EXCEPT
                      !.idx = @ + 1,
                      !.axon_ids = Append(@, AxonId),
                      !.axon_id[matching.idx] = <<AxonId>>,
                      !.auto[matching.idx] = <<AxonId>>]
    /\ UNCHANGED <<fusion, rescaler, orders, rerun, workers, extract>>

\* The same, df_auto having no row axon_id: df_auto.loc raises KeyError.
RowKeyError ==
    /\ InRows
    /\ AxonId >= 0
    /\ AxonId \notin AutoIndex
    /\ matching' = [matching EXCEPT
                      !.axon_ids = Append(@, AxonId),
                      !.status = "failed"]
    /\ UNCHANGED <<fusion, rescaler, orders, rerun, workers, extract>>

\* After the loop: a message is printed if axon_ids has duplicates, then
\* output_df.to_csv(output_path).
WriteMatched ==
    /\ matching.status = "running"
    /\ matching.idx = NRows + 1
    /\ matching' = [matching EXCEPT !.status = "written"]
    /\ UNCHANGED <<fusion, rescaler, orders, rerun, workers, extract>>

NextMatch == SkipRow \/ AssignRow \/ RowKeyError \/ WriteMatched

SpecMatch == InitMatch /\ [][NextMatch]_vars

\* The loop has dealt with row r.
Handled(r) ==
    \/ matching.idx > r
    \/ matching.idx = r /\ matching.status = "failed"

\* C16: a row whose point has instance value 0 is skipped: its axon_id and
\* auto_* columns stay None, whatever the arithmetic of the instance map's
\* unsigned type.
C16_BackgroundPointSkipped ==
    \A r \in Rows :
        (matching.vals[r] = 0 /\ Handled(r))
            => /\ r \in matching.skipped
               /\ matching.axon_id[r] = <<>>
               /\ matching.auto[r] = <<>>

\* C17: in the output written, no row carries an axon id that two or more
\* rows map to.
C17_DuplicateIdsRemoved ==
    matching.status = "written" =>
        \A r1, r2 \in Rows :
            (r1 # r2 /\ matching.vals[r1] = matching.vals[r2]
             /\ matching.vals[r1] # 0)
                => \A r \in Rows :
                      matching.axon_id[r] # <<matching.vals[r1] - 1>>

\* ============================================================ SpecExtract
\* utils/extract_axon_masks.py, extract_from_nnunet_prediction, one call.
\* The path of the prediction is a sequence of pieces of text, each either
\* the text '_seg-nnunet.png' or some text without it; the string is their
\* concatenation.
\* extract = [pred, pred_path, class_name, class_value, disk, returned, status]:
\*   disk      the files the call has written: records [name, content]
\*   returned  <<>> or <<the path returned>>
\*   status    "called", "returned" or "ValueError"

nnunet_suffix == "_seg-nnunet.png"
PathPieces == {"sub-01_sample-01", nnunet_suffix}
PredPaths == UNION {[1..n -> PathPieces] : n \in 1..MaxPathLen}
classes_of_interest == {"uaxon", "myelin", "axon"}
PredValues == {CLASS_MAPPING[c] : c \in classes_of_interest \cup {"background"}}
Predictions == [shape : {1}, px : [Pixels -> PredValues]]

\* f'_seg-{class_name}.png'
SegSuffix(class_name) ==
    CASE class_name = "uaxon" -> "_seg-uaxon.png"
      [] class_name = "myelin" -> "_seg-myelin.png"
      [] class_name = "axon" -> "_seg-axon.png"

\* pred_path.name.endswith(str(nnunet_suffix))
EndsWithSuffix(path) == path[Len(path)] = nnunet_suffix
\* str(pred_path).replace(str(nnunet_suffix), new): every occurrence.
StrReplace(path, new) ==
    [i \in DOMAIN path |-> IF path[i] = nnunet_suffix THEN new ELSE path[i]]

\* Mutant of Extraction: the class's pixels are set to 1.
ExtractionOnes(pred, class_value) ==
    [shape |-> pred.shape,
     px |-> [p \in Pixels |-> IF pred.px[p] = class_value THEN 1 ELSE 0]]
\* extraction = np.zeros_like(pred)
\* extraction[pred == class_value] = np.iinfo(np.uint8).max
Extraction(pred, class_value) ==
    [shape |-> pred.shape,
     px |-> [p \in DOMAIN pred.px |->
                IF pred.px[p] = class_value THEN 255 ELSE 0]]

InitExtract ==
    /\ \E pred \in Predictions :
       \E path \in PredPaths :
       \E c \in classes_of_interest :
          extract = [pred |-> pred, pred_path |-> path, class_name |-> c,
                     class_value |-> CLASS_MAPPING[c], disk |-> {},
                     returned |-> <<>>, status |-> "called"]
    /\ cur = 0 /\ k = 0 /\ status = "idle" /\ err = "none" /\ exists = {}
    /\ out = <<>> /\ existed = FALSE /\ seen = Unread /\ label = NoLabels
    /\ raw = <<>> /\ writes = 0
    /\ rescaler = <<>> /\ orders = <<>> /\ rerun = <<>>
    /\ workers = <<>> /\ matching = <<>>

ClassFound == \E p \in Pixels : extract.pred.px[p] = extract.class_value

\* if not np.any(pred == class_value): raise ValueError
ExtractClassNotFound ==
    /\ extract.status = "called"
    /\ ~ClassFound
    /\ extract' = [extract EXCEPT !.status = "ValueError"]
    /\ UNCHANGED <<fusion, rescaler, orders, rerun, workers, matching>>

\* elif not pred_path.name.endswith(str(nnunet_suffix)): raise ValueError
ExtractBadName ==
    /\ extract.status = "called"
    /\ ClassFound
    /\ ~EndsWithSuffix(extract.pred_path)
    /\ extract' = [extract EXCEPT !.status = "ValueError"]
    /\ UNCHANGED <<fusion, rescaler, orders, rerun, workers, matching>>

\* The mask is built, written under new_fname, and new_fname returned.
ExtractWrites ==
    /\ extract.status = "called"
    /\ ClassFound
    /\ EndsWithSuffix(extract.pred_path)
    /\ LET new_fname == StrReplace(extract.pred_path,
                                   SegSuffix(extract.class_name))
       IN  extract' = [extract EXCEPT
              !.disk = @ \cup {[name |-> new_fname,
                                content |-> ImWrite(Extraction(extract.pred,
                                                    extract.class_value))]},
              !.returned = <<new_fname>>,
              !.status = "returned"]
    /\ UNCHANGED <<fusion, rescaler, orders, rerun, workers, matching>>

NextExtract == ExtractClassNotFound \/ ExtractBadName \/ ExtractWrites

SpecExtract == InitExtract /\ [][NextExtract]_vars

\* The path with its suffix, the last piece, replaced.
SuffixReplaced(path, new) == [path EXCEPT ![Len(path)] = new]
\* The mask of the claim: 255 where the prediction has the class value.
ClassMask(pred, class_value) ==
    [shape |-> pred.shape,
     px |-> [p \in Pixels |-> IF pred.px[p] = class_value THEN 255 ELSE 0]]
ExtractOver == extract.status # "called"
MustRaise == ~ClassFound \/ ~EndsWithSuffix(extract.pred_path)
WroteMaskUnderReplacedSuffix ==
    LET name == SuffixReplaced(extract.pred_path, SegSuffix(extract.class_name))
    IN  /\ extract.status = "returned"
        /\ extract.disk = {[name |-> name,
                            content |-> ClassMask(extract.pred,
                                                  extract.class_value)]}
        /\ extract.returned = <<name>>

SuffixOccursOnce ==
    \A i \in DOMAIN extract.pred_path :
        extract.pred_path[i] = nnunet_suffix => i = Len(extract.pred_path)

TripPixels == 1..NTripPix
TripPredictions == [shape : {1}, px : [TripPixels -> PredValues]]
\* for c in classes_of_interest, in the list's order
TripClasses == <<"uaxon", "myelin", "axon">>

\* merged_mask = np.zeros_like(axon_mask)
\* merged_mask[axon_mask == 255] = 255; merged_mask[myelin_mask == 255] = 128
MergedMask(axon_mask, myelin_mask) ==
    [shape |-> axon_mask.shape,
     px |-> [p \in DOMAIN axon_mask.px |->
                IF myelin_mask.px[p] = 255 THEN 128
                ELSE IF axon_mask.px[p] = 255 THEN 255
                ELSE 0]]

InitRoundTrip ==
    /\ \E pred \in TripPredictions :
          extract = [pred |-> pred, i |-> 1,
                     masks |-> [c \in classes_of_interest |-> <<>>],
                     merged |-> <<>>, label |-> <<>>, fused |-> <<>>,
                     status |-> "extracting"]
    /\ cur = 0 /\ k = 0 /\ status = "idle" /\ err = "none" /\ exists = {}
    /\ out = <<>> /\ existed = FALSE /\ seen = Unread /\ label = NoLabels
    /\ raw = <<>> /\ writes = 0
    /\ rescaler = <<>> /\ orders = <<>> /\ rerun = <<>>
    /\ workers = <<>> /\ matching = <<>>

TripExtracting ==
    extract.status = "extracting" /\ extract.i <= Len(TripClasses)
TripClass == TripClasses[extract.i]
TripClassFound ==
    \E p \in TripPixels : extract.pred.px[p] = CLASS_MAPPING[TripClass]

\* mask_path = extract_from_nnunet_prediction(pred, pred_path, c, mapping[c])
\* (pred_path comes from the glob, so it ends with the suffix)
TripExtractClass ==
    /\ TripExtracting
    /\ TripClassFound
    /\ extract' = [extract EXCEPT
          !.i = @ + 1,
          !.masks[TripClass] =
              <<ImWrite(Extraction(extract.pred, CLASS_MAPPING[TripClass]))>>]
    /\ UNCHANGED <<fusion, rescaler, orders, rerun, workers, matching>>

\* The same, the class absent from the prediction: ValueError ends main.
TripExtractFails ==
    /\ TripExtracting
    /\ ~TripClassFound
    /\ extract' = [extract EXCEPT !.status = "ValueError"]
    /\ UNCHANGED <<fusion, rescaler, orders, rerun, workers, matching>>

\* The axon and myelin masks are read back, merged and written as the
\* axonmyelin mask.
TripMergeMasks ==
    /\ extract.status = "extracting"
    /\ extract.i = Len(TripClasses) + 1
    /\ extract' = [extract EXCEPT
          !.merged = <<ImWrite(MergedMask(extract.masks["axon"][1],
                                          extract.masks["myelin"][1]))>>,
          !.status = "merged"]
    /\ UNCHANGED <<fusion, rescaler, orders, rerun, workers, matching>>

\* process_labels, uaxon: the rescaled uaxon mask is written as the label
\* raster.
TripFuseUaxon ==
    /\ extract.status = "merged"
    /\ extract' = [extract EXCEPT
          !.fused = <<ImWrite(Rescale(extract.masks["uaxon"][1],
                                      RescalingFactor("uaxon")))>>,
          !.status = "started"]
    /\ UNCHANGED <<fusion, rescaler, orders, rerun, workers, matching>>

\* process_labels, axonmyelin: the merged mask is rescaled and merged into
\* the label raster.
TripFuseAxonmyelin ==
    /\ extract.status = "started"
    /\ LET lab == Rescale(extract.merged[1], RescalingFactor("axonmyelin"))
       IN  extract' = [extract EXCEPT
              !.label = <<lab>>,
              !.fused = <<ImWrite(Merge(extract.fused[1], lab, "axonmyelin"))>>,
              !.status = "fused"]
    /\ UNCHANGED <<fusion, rescaler, orders, rerun, workers, matching>>

NextRoundTrip ==
    \/ TripExtractClass
    \/ TripExtractFails
    \/ TripMergeMasks
    \/ TripFuseUaxon
    \/ TripFuseAxonmyelin

SpecRoundTrip == InitRoundTrip /\ [][NextRoundTrip]_vars

AllWhite == [shape |-> 1, px |-> [p \in TripPixels |-> 255]]

\* C23: the merged mask holds 255 at the prediction's axon pixels and 128
\* at its myelin pixels (128 where an axon mask and a myelin mask are both
\* 255); rescaled with divisor 127 it gives level 2 at the axon pixels and
\* level 1 at the myelin pixels, and fusion labels them 3 and 2, their
\* classes in the prediction.
C23_RoundTrip ==
    /\ \A p \in TripPixels : MergedMask(AllWhite, AllWhite).px[p] = 128
    /\ extract.merged # <<>> =>
          \A p \in TripPixels :
              /\ extract.pred.px[p] = 3 => extract.merged[1].px[p] = 255
              /\ extract.pred.px[p] = 2 => extract.merged[1].px[p] = 128
    /\ extract.status = "fused" =>
          \A p \in TripPixels :
              /\ extract.pred.px[p] = 3
                    => extract.label[1].px[p] = 2 /\ extract.fused[1].px[p] = 3
              /\ extract.pred.px[p] = 2
                    => extract.label[1].px[p] = 1 /\ extract.fused[1].px[p] = 2

\* A prediction with a uaxon, a myelin and an axon pixel went through the
\* extraction and the fusion.
C23_Witness ==
    /\ extract.status = "fused"
    /\ extract.pred.px = <<1, 2, 3>>
    /\ extract.merged[1].px = <<0, 128, 255>>
    /\ extract.fused[1].px = <<1, 2, 3>>

====
